---- MODULE Spec2Model ----
(***************************************************************************)
(* A model of module_7.py: the Field/Record/AddressBook data model, the    *)
(* command handlers wrapped by input_error, and the command loop of main.  *)
(*                                                                         *)
(* A Python str is a sequence of pieces.  A piece is one character of      *)
(* text that came from outside (a name, a phone, a date, a line), or one   *)
(* literal of the source ("Contact added.").  A value that is a return or  *)
(* a raise is a record [ok, val, exc, msg].                                *)
(***************************************************************************)
EXTENDS Integers, Sequences, FiniteSets, TLC

VARIABLES data, prev, call, out, validated, today, upcoming, running

vars == <<data, prev, call, out, validated, today, upcoming, running>>

(***************************************************************************)
(* Bounds of the model.                                                    *)
(***************************************************************************)
MaxPhones == 2
FirstYear == 2023
NumYears == 2

(***************************************************************************)
(* Characters.                                                             *)
(***************************************************************************)
AsciiDigits == {"0", "1", "2", "3", "4", "5", "6", "7", "8", "9"}

NonZeroDigits == AsciiDigits \ {"0"}

\* ARABIC-INDIC DIGIT TWO: a decimal digit (category Nd) that is not ASCII.
ArabicTwo == "U+0662"

\* The characters c with c.isdigit(): what str.isdigit and the regex \d accept.
UnicodeDigits == AsciiDigits \cup {ArabicTwo}

Whitespace == {" ", "\t"}

\* int(c) of one decimal digit.
DigitVal(c) ==
  CASE c = "0" -> 0 [] c = "1" -> 1 [] c = "2" -> 2 [] c = "3" -> 3
    [] c = "4" -> 4 [] c = "5" -> 5 [] c = "6" -> 6 [] c = "7" -> 7
    [] c = "8" -> 8 [] c = "9" -> 9 [] c = ArabicTwo -> 2

RECURSIVE IntOf(_)
\* int(s) of a string of decimal digits; leading whitespace is stripped.
IntOf(s) ==
  IF s = <<>> THEN 0
  ELSE IF s[1] \in Whitespace THEN IntOf(Tail(s))
  ELSE 10 * IntOf(SubSeq(s, 1, Len(s) - 1)) + DigitVal(s[Len(s)])

\* str.isdigit(): every character is a digit and there is at least one.
isdigit(s) == s # <<>> /\ \A i \in 1..Len(s) : s[i] \in UnicodeDigits

\* str.lower() of one character.
LowerChar(c) ==
  CASE c = "A" -> "a" [] c = "D" -> "d" [] c = "E" -> "e" [] c = "X" -> "x"
    [] c = "I" -> "i" [] c = "T" -> "t" [] c = "B" -> "b"
    [] OTHER -> c

lower(s) == [i \in 1..Len(s) |-> LowerChar(s[i])]

RECURSIVE Join(_, _)
\* sep.join(parts)
Join(sep, parts) ==
  IF parts = <<>> THEN <<>>
  ELSE IF Len(parts) = 1 THEN parts[1]
  ELSE parts[1] \o sep \o Join(sep, Tail(parts))

(***************************************************************************)
(* Returning and raising.                                                  *)
(***************************************************************************)
Ok(v) == [ok |-> TRUE, val |-> v, exc |-> "", msg |-> <<>>]

Raise(e, m) == [ok |-> FALSE, val |-> <<>>, exc |-> e, msg |-> m]

(***************************************************************************)
(* Phone.                                                                  *)
(***************************************************************************)
PhoneLen == 10

PhoneError == <<"Phone number must be 10 digits">>

validate_phone(phone) == isdigit(phone) /\ Len(phone) = PhoneLen

Phone(value) ==
  IF ~validate_phone(value) THEN Raise("ValueError", PhoneError) ELSE Ok(value)

(***************************************************************************)
(* Calendar dates (datetime.date).                                         *)
(***************************************************************************)
IsLeap(y) == (y % 4 = 0 /\ y % 100 # 0) \/ y % 400 = 0

DaysInMonth(y, m) ==
  IF m = 2 THEN (IF IsLeap(y) THEN 29 ELSE 28)
  ELSE IF m \in {4, 6, 9, 11} THEN 30 ELSE 31

MinYear == 1
MaxYear == 9999

DayRangeError == <<"day is out of range for month">>

\* date(year, month, day)
date(y, m, d) ==
  IF y < MinYear \/ y > MaxYear THEN Raise("ValueError", <<"year is out of range">>)
  ELSE IF m < 1 \/ m > 12 THEN Raise("ValueError", <<"month must be in 1..12">>)
  ELSE IF d < 1 \/ d > DaysInMonth(y, m) THEN Raise("ValueError", DayRangeError)
  ELSE Ok([year |-> y, month |-> m, day |-> d])

\* date.replace(year=y)
replace_year(dt, y) == date(y, dt.month, dt.day)

\* The days of year y before month m.
DaysBeforeMonth(y, m) ==
  (CASE m = 1 -> 0 [] m = 2 -> 31 [] m = 3 -> 59 [] m = 4 -> 90 [] m = 5 -> 120
     [] m = 6 -> 151 [] m = 7 -> 181 [] m = 8 -> 212 [] m = 9 -> 243 [] m = 10 -> 273
     [] m = 11 -> 304 [] m = 12 -> 334)
    + (IF m > 2 /\ IsLeap(y) THEN 1 ELSE 0)

\* date.toordinal(): 1 for 0001-01-01.
toordinal(dt) ==
  LET y == dt.year - 1
  IN  y * 365 + (y \div 4) - (y \div 100) + (y \div 400)
        + DaysBeforeMonth(dt.year, dt.month) + dt.day

\* date.weekday(): Monday is 0, Saturday 5, Sunday 6.
weekday(dt) == (toordinal(dt) + 6) % 7

\* a < b on dates
DateLess(a, b) ==
  \/ a.year < b.year
  \/ a.year = b.year /\ a.month < b.month
  \/ a.year = b.year /\ a.month = b.month /\ a.day < b.day

NextDay(dt) ==
  IF dt.day < DaysInMonth(dt.year, dt.month) THEN [dt EXCEPT !.day = @ + 1]
  ELSE IF dt.month < 12 THEN [dt EXCEPT !.month = @ + 1, !.day = 1]
  ELSE [year |-> dt.year + 1, month |-> 1, day |-> 1]

RECURSIVE PlusDays(_, _)
\* dt + timedelta(days=n), n >= 0
PlusDays(dt, n) == IF n = 0 THEN dt ELSE PlusDays(NextDay(dt), n - 1)

DigitChar(n) ==
  CASE n = 0 -> "0" [] n = 1 -> "1" [] n = 2 -> "2" [] n = 3 -> "3"
    [] n = 4 -> "4" [] n = 5 -> "5" [] n = 6 -> "6" [] n = 7 -> "7"
    [] n = 8 -> "8" [] n = 9 -> "9"

\* n as a decimal numeral zero-padded to w digits
Padded(n, w) == [i \in 1..w |-> DigitChar((n \div (10 ^ (w - i))) % 10)]

\* date.strftime("%d.%m.%Y")
strftime(dt) ==
  Padded(dt.day, 2) \o <<".">> \o Padded(dt.month, 2) \o <<".">> \o Padded(dt.year, 4)

(***************************************************************************)
(* datetime.strptime(value, "%d.%m.%Y").date()                             *)
(***************************************************************************)
\* %d: 3[0-1]|[1-2]\d|0[1-9]|[1-9]| [1-9]
MatchDay(f) ==
  \/ Len(f) = 1 /\ f[1] \in NonZeroDigits
  \/ /\ Len(f) = 2
     /\ \/ f[1] = "3" /\ f[2] \in {"0", "1"}
        \/ f[1] \in {"1", "2"} /\ f[2] \in UnicodeDigits
        \/ f[1] = "0" /\ f[2] \in NonZeroDigits
        \/ f[1] = " " /\ f[2] \in NonZeroDigits

\* %m: 1[0-2]|0[1-9]|[1-9]
MatchMonth(f) ==
  \/ Len(f) = 1 /\ f[1] \in NonZeroDigits
  \/ /\ Len(f) = 2
     /\ \/ f[1] = "1" /\ f[2] \in {"0", "1", "2"}
        \/ f[1] = "0" /\ f[2] \in NonZeroDigits

\* %Y: \d\d\d\d
MatchYear(f) == Len(f) = 4 /\ \A i \in 1..4 : f[i] \in UnicodeDigits

\* The ways value splits as <day>.<month>.<year> with nothing left over:
\* <<i, j>> are the widths of the day and month fields.
Splits(value) ==
  {s \in (1..2) \X (1..2) :
     /\ Len(value) = s[1] + s[2] + 6
     /\ MatchDay(SubSeq(value, 1, s[1]))
     /\ value[s[1] + 1] = "."
     /\ MatchMonth(SubSeq(value, s[1] + 2, s[1] + 1 + s[2]))
     /\ value[s[1] + s[2] + 2] = "."
     /\ MatchYear(SubSeq(value, s[1] + s[2] + 3, Len(value)))}

FormatError == <<"time data does not match format">>

\* The date of the fields value splits into at s.
fields_date(value, s) ==
  date(IntOf(SubSeq(value, s[1] + s[2] + 3, Len(value))),
       IntOf(SubSeq(value, s[1] + 2, s[1] + 1 + s[2])),
       IntOf(SubSeq(value, 1, s[1])))

\* No split is no match; the pattern matches in at most one way.
matched_date(value, splits) ==
  IF splits = {} THEN Raise("ValueError", FormatError)
  ELSE fields_date(value, CHOOSE s \in splits : TRUE)

strptime(value) == matched_date(value, Splits(value))

(***************************************************************************)
(* Birthday.                                                               *)
(***************************************************************************)
BirthdayError == <<"Invalid date format. Use DD.MM.YYYY">>

Birthday(value) ==
  IF strptime(value).ok THEN Ok(value) ELSE Raise("ValueError", BirthdayError)

(***************************************************************************)
(* Record: [name, phones, birthday].  birthday is <<>> for None and        *)
(* <<value>> for a Birthday holding value.                                 *)
(***************************************************************************)
Record(name) == [name |-> name, phones |-> <<>>, birthday |-> <<>>]

\* Record.find_phone: the position of the first phone equal to phone, 0 for None.
find_phone(rec, phone) ==
  IF \E i \in 1..Len(rec.phones) : rec.phones[i] = phone
  THEN CHOOSE i \in 1..Len(rec.phones) :
         /\ rec.phones[i] = phone
         /\ \A j \in 1..(i - 1) : rec.phones[j] # phone
  ELSE 0

\* What a method call leaves: the record after it and its return or raise.
Left(rec, res) == [rec |-> rec, res |-> res]

None == <<>>

add_phone_Front(rec, phone) ==
  LET p == Phone(phone)
  IN  IF p.ok THEN Left([rec EXCEPT !.phones = <<p.val>> \o @], Ok(None))
      ELSE Left(rec, p)

add_phone(rec, phone) ==
  LET p == Phone(phone)
  IN  IF p.ok THEN Left([rec EXCEPT !.phones = Append(@, p.val)], Ok(None))
      ELSE Left(rec, p)

remove_phone(rec, phone) ==
  LET i == find_phone(rec, phone)
  IN  IF i # 0
      THEN Left([rec EXCEPT !.phones = SubSeq(@, 1, i - 1) \o SubSeq(@, i + 1, Len(@))],
                Ok(None))
      ELSE Left(rec, Ok(None))

PhoneNotFound == <<"Phone number not found">>

edit_phone_AssignFirst(rec, old_phone, new_phone) ==
  LET i == find_phone(rec, old_phone)
  IN  IF i # 0
      THEN IF Phone(new_phone).ok
           THEN Left([rec EXCEPT !.phones[i] = new_phone], Ok(None))
           ELSE Left([rec EXCEPT !.phones[i] = new_phone], Phone(new_phone))
      ELSE Left(rec, Raise("ValueError", PhoneNotFound))

edit_phone(rec, old_phone, new_phone) ==
  LET i == find_phone(rec, old_phone)
  IN  IF i # 0
      THEN IF Phone(new_phone).ok
           THEN Left([rec EXCEPT !.phones[i] = new_phone], Ok(None))
           ELSE Left(rec, Phone(new_phone))
      ELSE Left(rec, Raise("ValueError", PhoneNotFound))

record_add_birthday(rec, birthday) ==
  LET b == Birthday(birthday)
  IN  IF b.ok THEN Left([rec EXCEPT !.birthday = <<b.val>>], Ok(None))
      ELSE Left(rec, b)

\* Record.__str__
record_str(rec) ==
  <<"Contact name: ">> \o rec.name \o <<", phones: ">> \o Join(<<"; ">>, rec.phones)
    \o (IF rec.birthday # <<>> THEN <<", birthday: ">> \o rec.birthday[1] ELSE <<>>)

(***************************************************************************)
(* AddressBook: the dict as the sequence of its records in insertion order.*)
(***************************************************************************)
\* AddressBook.find: the position of the record keyed name, 0 for None.
find(book, name) ==
  IF \E i \in 1..Len(book) : book[i].name = name
  THEN CHOOSE i \in 1..Len(book) : book[i].name = name
  ELSE 0

add_record(book, rec) ==
  IF find(book, rec.name) # 0
  THEN [book EXCEPT ![find(book, rec.name)] = rec]
  ELSE Append(book, rec)

delete(book, name) ==
  LET i == find(book, name)
  IN  IF i # 0 THEN SubSeq(book, 1, i - 1) \o SubSeq(book, i + 1, Len(book)) ELSE book

(***************************************************************************)
(* AddressBook.get_upcoming_birthdays, with datetime.today().date() = tdy. *)
(***************************************************************************)
\* birthday_date.replace(year=today.year); a raise of strptime passes through.
this_year_of(birthday_date, tdy) ==
  IF ~birthday_date.ok THEN birthday_date
  ELSE replace_year(birthday_date.val, tdy.year)

\* The roll to next year of a birthday that is before today.
rolled(this_year, tdy) ==
  IF ~this_year.ok THEN this_year
  ELSE IF DateLess(this_year.val, tdy) THEN replace_year(this_year.val, tdy.year + 1)
  ELSE this_year

\* The date the loop body compares with today: birthday_this_year after the
\* roll.  A raise of replace() leaves the loop and the method.
birthday_this_year(rec, tdy) ==
  rolled(this_year_of(strptime(rec.birthday[1]), tdy), tdy)

WindowDays == 7

congratulation_date_SundayOnly(d) ==
  IF weekday(d) = 6 THEN PlusDays(d, 1) ELSE d

congratulation_date(d) ==
  IF weekday(d) = 5 THEN PlusDays(d, 2)
  ELSE IF weekday(d) = 6 THEN PlusDays(d, 1)
  ELSE d

in_window_Exclusive(days_until_birthday) ==
  0 <= days_until_birthday /\ days_until_birthday < WindowDays

in_window(days_until_birthday) ==
  0 <= days_until_birthday /\ days_until_birthday <= WindowDays

\* What the loop body appends for a birthday_this_year c: no entry or one.
entry_of(rec, tdy, c) ==
  IF ~c.ok THEN c
  ELSE IF in_window(toordinal(c.val) - toordinal(tdy))
       THEN Ok(<<[name |-> rec.name, birthday |-> strftime(congratulation_date(c.val))]>>)
       ELSE Ok(<<>>)

\* One pass of the loop body: the entries it appends, or its raise.
upcoming_of(rec, tdy) ==
  IF rec.birthday = <<>> THEN Ok(<<>>)
  ELSE entry_of(rec, tdy, birthday_this_year(rec, tdy))

RECURSIVE upcoming_from(_, _, _)
\* The rest of the loop after a pass left e.
upcoming_after(e, rest, tdy, acc) ==
  IF ~e.ok THEN e ELSE upcoming_from(rest, tdy, acc \o e.val)

upcoming_from(book, tdy, acc) ==
  IF book = <<>> THEN Ok(acc)
  ELSE upcoming_after(upcoming_of(Head(book), tdy), Tail(book), tdy, acc)

get_upcoming_birthdays(book, tdy) == upcoming_from(book, tdy, <<>>)

(***************************************************************************)
(* The handlers.  A handler body yields [book, res, validated]: the        *)
(* directory it leaves, its return or raise, and whether it constructed a  *)
(* Phone or a Birthday.  input_error turns res into the display string.    *)
(***************************************************************************)
NotFoundText == <<"Contact not found">>
BadFormatText == <<"Invalid command format. Please check the arguments.">>
AddedText == <<"Contact added.">>
UpdatedText == <<"Contact updated.">>
BirthdayAddedText == <<"Birthday added.">>
NoUpcomingText == <<"No upcoming birthdays in the next 7 days.">>

Outcome(book, res, v) == [book |-> book, res |-> res, validated |-> v]

input_error(o) ==
  [book |-> o.book,
   validated |-> o.validated,
   out |-> IF o.res.ok THEN o.res.val
           ELSE CASE o.res.exc = "ValueError" -> o.res.msg
                  [] o.res.exc = "KeyError" -> NotFoundText
                  [] o.res.exc = "IndexError" -> BadFormatText
                  [] OTHER -> <<"An error occurred: ">> \o o.res.msg]

\* The record of name in book with rec in its place.
Put(book, rec) == [book EXCEPT ![find(book, rec.name)] = rec]

add_contact_body_CreateAfter(args, book) ==
  IF Len(args) < 2
  THEN Outcome(book, Raise("IndexError", <<"Please provide name and phone number">>), FALSE)
  ELSE LET name == args[1]
           phone == args[2]
           isNew == find(book, name) = 0
           book1 == IF isNew THEN add_record(book, Record(name)) ELSE book
           message == IF isNew THEN AddedText ELSE UpdatedText
       IN  IF phone # <<>>
           THEN LET r == add_phone(book1[find(book1, name)], phone)
                IN  IF r.res.ok THEN Outcome(Put(book1, r.rec), Ok(message), TRUE)
                    ELSE Outcome(book, r.res, TRUE)
           ELSE Outcome(book1, Ok(message), FALSE)

add_contact_body(args, book) ==
  IF Len(args) < 2
  THEN Outcome(book, Raise("IndexError", <<"Please provide name and phone number">>), FALSE)
  ELSE LET name == args[1]
           phone == args[2]
           isNew == find(book, name) = 0
           book1 == IF isNew THEN add_record(book, Record(name)) ELSE book
           message == IF isNew THEN AddedText ELSE UpdatedText
       IN  IF phone # <<>>
           THEN LET r == add_phone(book1[find(book1, name)], phone)
                IN  Outcome(Put(book1, r.rec), IF r.res.ok THEN Ok(message) ELSE r.res, TRUE)
           ELSE Outcome(book1, Ok(message), FALSE)

add_contact(args, book) == input_error(add_contact_body(args, book))

\* name, old_phone, new_phone, *_ = args raises ValueError on two arguments.
change_contact_body_OffByOne(args, book) ==
  IF Len(args) < 2
  THEN Outcome(book,
               Raise("IndexError", <<"Please provide name, old phone, and new phone">>),
               FALSE)
  ELSE IF Len(args) = 2
  THEN Outcome(book,
               Raise("ValueError", <<"not enough values to unpack (expected at least 3, got 2)">>),
               FALSE)
  ELSE LET name == args[1]
           old_phone == args[2]
           new_phone == args[3]
       IN  IF find(book, name) = 0
           THEN Outcome(book, Raise("KeyError", NotFoundText), FALSE)
           ELSE LET rec == book[find(book, name)]
                    r == edit_phone(rec, old_phone, new_phone)
                IN  Outcome(Put(book, r.rec),
                            IF r.res.ok THEN Ok(UpdatedText) ELSE r.res,
                            find_phone(rec, old_phone) # 0)

change_contact_body(args, book) ==
  IF Len(args) < 3
  THEN Outcome(book,
               Raise("IndexError", <<"Please provide name, old phone, and new phone">>),
               FALSE)
  ELSE LET name == args[1]
           old_phone == args[2]
           new_phone == args[3]
       IN  IF find(book, name) = 0
           THEN Outcome(book, Raise("KeyError", NotFoundText), FALSE)
           ELSE LET rec == book[find(book, name)]
                    r == edit_phone(rec, old_phone, new_phone)
                IN  Outcome(Put(book, r.rec),
                            IF r.res.ok THEN Ok(UpdatedText) ELSE r.res,
                            find_phone(rec, old_phone) # 0)

change_contact(args, book) == input_error(change_contact_body(args, book))

show_phone_body(args, book) ==
  IF Len(args) < 1
  THEN Outcome(book, Raise("IndexError", <<"Please provide contact name">>), FALSE)
  ELSE LET name == args[1]
       IN  IF find(book, name) = 0
           THEN Outcome(book, Raise("KeyError", NotFoundText), FALSE)
           ELSE LET rec == book[find(book, name)]
                IN  IF rec.phones # <<>>
                    THEN Outcome(book, Ok(name \o <<": ">> \o Join(<<", ">>, rec.phones)),
                                 FALSE)
                    ELSE Outcome(book, Ok(name \o <<" has no phone numbers">>), FALSE)

show_phone(args, book) == input_error(show_phone_body(args, book))

show_all_body(args, book) ==
  IF book = <<>> THEN Outcome(book, Ok(<<"No contacts found.">>), FALSE)
  ELSE Outcome(book, Ok(Join(<<"\n">>, [i \in 1..Len(book) |-> record_str(book[i])])),
               FALSE)

show_all(args, book) == input_error(show_all_body(args, book))

add_birthday_body(args, book) ==
  IF Len(args) < 2
  THEN Outcome(book,
               Raise("IndexError", <<"Please provide name and birthday (DD.MM.YYYY)">>),
               FALSE)
  ELSE LET name == args[1]
           birthday == args[2]
       IN  IF find(book, name) = 0
           THEN Outcome(book, Raise("KeyError", NotFoundText), FALSE)
           ELSE LET r == record_add_birthday(book[find(book, name)], birthday)
                IN  Outcome(Put(book, r.rec),
                            IF r.res.ok THEN Ok(BirthdayAddedText) ELSE r.res,
                            TRUE)

add_birthday(args, book) == input_error(add_birthday_body(args, book))

show_birthday_body(args, book) ==
  IF Len(args) < 1
  THEN Outcome(book, Raise("IndexError", <<"Please provide contact name">>), FALSE)
  ELSE LET name == args[1]
       IN  IF find(book, name) = 0
           THEN Outcome(book, Raise("KeyError", NotFoundText), FALSE)
           ELSE LET rec == book[find(book, name)]
                IN  IF rec.birthday # <<>>
                    THEN Outcome(book, Ok(name \o <<"'s birthday: ">> \o rec.birthday[1]),
                                 FALSE)
                    ELSE Outcome(book, Ok(name \o <<" has no birthday set">>), FALSE)

show_birthday(args, book) == input_error(show_birthday_body(args, book))

\* The lines of birthdays() for the entries of upcoming.
birthday_lines(entries) ==
  [i \in 1..Len(entries) |-> entries[i].name \o <<": ">> \o entries[i].birthday]

\* birthdays once get_upcoming_birthdays returned or raised u.
birthdays_said(book, u) ==
  IF ~u.ok THEN Outcome(book, u, FALSE)
  ELSE IF u.val = <<>> THEN Outcome(book, Ok(NoUpcomingText), FALSE)
  ELSE Outcome(book,
               Ok(Join(<<"\n">>, <<<<"Upcoming birthdays:">>>> \o birthday_lines(u.val))),
               FALSE)

birthdays_body(args, book, tdy) == birthdays_said(book, get_upcoming_birthdays(book, tdy))

\* The decorated handler once get_upcoming_birthdays returned or raised u.
birthdays_shown(book, u) == input_error(birthdays_said(book, u))

birthdays(args, book, tdy) == birthdays_shown(book, get_upcoming_birthdays(book, tdy))

(***************************************************************************)
(* parse_input and the loop of main.                                       *)
(***************************************************************************)
RECURSIVE split_from(_, _, _)
\* str.split(): the maximal runs of non-whitespace, in order.
split_from(s, word, acc) ==
  IF s = <<>> THEN (IF word = <<>> THEN acc ELSE Append(acc, word))
  ELSE IF Head(s) \in Whitespace
       THEN split_from(Tail(s), <<>>, IF word = <<>> THEN acc ELSE Append(acc, word))
       ELSE split_from(Tail(s), Append(word, Head(s)), acc)

split(s) == split_from(s, <<>>, <<>>)

RECURSIVE lstrip(_)
lstrip(s) == IF s # <<>> /\ Head(s) \in Whitespace THEN lstrip(Tail(s)) ELSE s

RECURSIVE rstrip(_)
rstrip(s) ==
  IF s # <<>> /\ s[Len(s)] \in Whitespace THEN rstrip(SubSeq(s, 1, Len(s) - 1)) ELSE s

strip(s) == lstrip(rstrip(s))

UnpackError == <<"not enough values to unpack (expected at least 1, got 0)">>

\* cmd, *args = user_input.split() raises ValueError when there is no token.
parse_input(user_input) ==
  IF split(user_input) = <<>> THEN Raise("ValueError", UnpackError)
  ELSE Ok([cmd |-> lower(strip(Head(split(user_input)))),
           args |-> Tail(split(user_input))])

CmdClose == <<"c", "l", "o", "s", "e">>
CmdExit == <<"e", "x", "i", "t">>
CmdHello == <<"h", "e", "l", "l", "o">>
CmdAdd == <<"a", "d", "d">>
CmdChange == <<"c", "h", "a", "n", "g", "e">>
CmdPhone == <<"p", "h", "o", "n", "e">>
CmdAll == <<"a", "l", "l">>
CmdAddBirthday == <<"a", "d", "d", "-", "b", "i", "r", "t", "h", "d", "a", "y">>
CmdShowBirthday == <<"s", "h", "o", "w", "-", "b", "i", "r", "t", "h", "d", "a", "y">>
CmdBirthdays == <<"b", "i", "r", "t", "h", "d", "a", "y", "s">>

Shown(book, text, v) == [book |-> book, out |-> text, validated |-> v]

\* One pass of the while loop after parse_input returned: what it leaves and
\* prints, and whether it breaks out of the loop.
main_body(command, args, book, tdy) ==
  IF command \in {CmdClose, CmdExit}
  THEN [shown |-> Shown(book, <<"Good bye!">>, FALSE), break |-> TRUE]
  ELSE [break |-> FALSE,
        shown |->
          CASE command = CmdHello -> Shown(book, <<"How can I help you?">>, FALSE)
            [] command = CmdAdd -> add_contact(args, book)
            [] command = CmdChange -> change_contact(args, book)
            [] command = CmdPhone -> show_phone(args, book)
            [] command = CmdAll -> show_all(args, book)
            [] command = CmdAddBirthday -> add_birthday(args, book)
            [] command = CmdShowBirthday -> show_birthday(args, book)
            [] command = CmdBirthdays -> birthdays(args, book, tdy)
            [] OTHER -> Shown(book, <<"Invalid command.">>, FALSE)]

(***************************************************************************)
(* The texts the operations are called with.                               *)
(***************************************************************************)
NameA == <<"A">>
NameB == <<"B">>
Names == {NameA, NameB}

P1 == <<"1", "2", "3", "4", "5", "6", "7", "8", "9", "0">>
P2 == <<"0", "9", "8", "7", "6", "5", "4", "3", "2", "1">>
PArabic == <<"1", "2", "3", "4", "5", "6", "7", "8", "9", ArabicTwo>>
PShort == <<"1", "2", "3">>
PAlpha == <<"1", "2", "3", "4", "5", "a", "b", "c", "d", "e">>
PEmpty == <<>>
PhoneTexts == {P1, P2, PArabic, PShort, PAlpha, PEmpty}

Extra == <<"x">>

B_15_06_2024 == <<"1", "5", ".", "0", "6", ".", "2", "0", "2", "4">>
B_29_02_2024 == <<"2", "9", ".", "0", "2", ".", "2", "0", "2", "4">>
B_31_12_1999 == <<"3", "1", ".", "1", "2", ".", "1", "9", "9", "9">>
B_30_02_2024 == <<"3", "0", ".", "0", "2", ".", "2", "0", "2", "4">>
B_1_1_2024 == <<"1", ".", "1", ".", "2", "0", "2", "4">>

\* The argument lists of F, each list of F cut short, and each with one more.
Fewer(F) == {SubSeq(a, 1, k) : a \in F, k \in 0..1} \cup {SubSeq(a, 1, Len(a) - 1) : a \in F}

More(F) == {Append(a, Extra) : a \in F}

AnyCount(F) == F \cup Fewer(F) \cup More(F)

AddArgs ==
  AnyCount({<<n, p>> : n \in Names, p \in PhoneTexts \ {PEmpty}})
    \cup {<<n, PEmpty>> : n \in Names}

ChangeArgs == AnyCount({<<n, o, p>> : n \in Names, o \in PhoneTexts, p \in PhoneTexts})

NameArgs == AnyCount({<<n>> : n \in Names})

BookBirthdayArgs == AnyCount({<<n, b>> : n \in Names, b \in {B_15_06_2024, B_30_02_2024}})

Years == FirstYear..(FirstYear + NumYears - 1)

\* The values datetime.today().date() takes.
Todays ==
  {[year |-> y, month |-> m, day |-> d] :
     y \in Years, m \in 1..12, d \in 1..31} \cap
  {dt \in [year : Years, month : 1..12, day : 1..31] :
     dt.day <= DaysInMonth(dt.year, dt.month)}

UpcomingBirthdayTexts == {B_29_02_2024, B_1_1_2024, B_31_12_1999, B_15_06_2024}

DayFields ==
  {<<"0", "1">>, <<"1">>, <<"1", "3">>, <<"2", "9">>, <<"3", "0">>, <<"3", "1">>, <<"3", "2">>,
   <<"0", "0">>, <<" ", "1">>, <<"0", "0", "1">>, <<"1", "x">>, <<"1", ArabicTwo>>}

MonthFields ==
  {<<"0", "1">>, <<"1">>, <<"0", "2">>, <<"2">>, <<"1", "3">>, <<"0", "0">>, <<"1", "2">>}

YearFields ==
  {<<"2", "0", "2", "4">>, <<"2", "0", "2", "3">>, <<"2", "4">>, <<"0", "0", "0", "0">>,
   <<"2", "0", "2", "4", "5">>}

\* Texts Birthday is constructed from: the three fields in every combination,
\* and texts of another shape.
BirthdayTexts ==
  {d \o <<".">> \o m \o <<".">> \o y : d \in DayFields, m \in MonthFields, y \in YearFields}
    \cup {<<>>,
          <<"0", "1", "-", "0", "1", "-", "2", "0", "2", "4">>,
          <<"0", "1", ".", "0", "1", ".", "2", "0", "2", "4", " ">>,
          <<"0", "1", ".", "0", "1", "2", "0", "2", "4">>,
          <<"2", "0", "2", "4", ".", "0", "1", ".", "0", "1">>}

(***************************************************************************)
(* The state.  data is the directory; prev is the directory before the     *)
(* last call, call the last call's name and arguments, out what it         *)
(* returned or printed, validated whether it constructed a Phone or a      *)
(* Birthday; today and upcoming are the date and the result of the last    *)
(* get_upcoming_birthdays; running is the state of the loop of main.       *)
(* Between two calls only data lives on: the caller waits for the next     *)
(* command (call is Waiting) and the locals of the last call are gone.     *)
(***************************************************************************)
Waiting == [op |-> "input", args |-> <<>>]

NoDate == [year |-> 0, month |-> 0, day |-> 0]

Init ==
  /\ data = <<>>
  /\ prev = <<>>
  /\ call = Waiting
  /\ out = <<"Welcome to the assistant bot!">>
  /\ validated = FALSE
  /\ today = NoDate
  /\ upcoming = Ok(<<>>)
  /\ running = "running"

\* The result is shown and the caller asks for the next command.
Prompt ==
  /\ running = "running"
  /\ call # Waiting
  /\ call' = Waiting
  /\ prev' = data
  /\ out' = <<"Enter a command: ">>
  /\ validated' = FALSE
  /\ today' = NoDate
  /\ upcoming' = Ok(<<>>)
  /\ UNCHANGED <<data, running>>

RECURSIVE TotalPhones(_)
TotalPhones(book) ==
  IF book = <<>> THEN 0 ELSE Len(Head(book).phones) + TotalPhones(Tail(book))

\* A call op(args) that left shown; the model stops growing the directory at
\* MaxPhones phones.
Step(op, args, shown) ==
  /\ call = Waiting
  /\ TotalPhones(shown.book) <= MaxPhones
  /\ prev' = data
  /\ data' = shown.book
  /\ call' = [op |-> op, args |-> args]
  /\ out' = shown.out
  /\ validated' = shown.validated
  /\ UNCHANGED <<today, upcoming, running>>

AddContact(argLists) ==
  \E args \in argLists : Step("add", args, add_contact(args, data))

ChangeContact(argLists) ==
  \E args \in argLists : Step("change", args, change_contact(args, data))

ShowPhone(argLists) ==
  \E args \in argLists : Step("phone", args, show_phone(args, data))

ShowAll ==
  \E args \in {<<>>, <<Extra>>} : Step("all", args, show_all(args, data))

AddBirthday(argLists) ==
  \E args \in argLists : Step("add-birthday", args, add_birthday(args, data))

ShowBirthday(argLists) ==
  \E args \in argLists : Step("show-birthday", args, show_birthday(args, data))

\* birthdays(args) on the day tdy, in which get_upcoming_birthdays left u.
StepOn(tdy, args, u) ==
  /\ call = Waiting
  /\ prev' = data
  /\ data' = birthdays_shown(data, u).book
  /\ call' = [op |-> "birthdays", args |-> args]
  /\ out' = birthdays_shown(data, u).out
  /\ validated' = birthdays_shown(data, u).validated
  /\ today' = tdy
  /\ upcoming' = u
  /\ UNCHANGED running

Birthdays(todays) ==
  \E tdy \in todays : StepOn(tdy, <<>>, get_upcoming_birthdays(data, tdy))

\* A method called on the record of name; out is the message of its raise.
Method(op, args, left) ==
  Step(op, args, Shown(Put(data, left.rec), left.res.msg, TRUE))

RecordAddPhone ==
  \E n \in Names, p \in PhoneTexts :
    /\ find(data, n) # 0
    /\ Method("Record.add_phone", <<n, p>>, add_phone(data[find(data, n)], p))

RecordRemovePhone ==
  \E n \in Names, p \in PhoneTexts :
    /\ find(data, n) # 0
    /\ Method("Record.remove_phone", <<n, p>>, remove_phone(data[find(data, n)], p))

RecordEditPhone ==
  \E n \in Names, o \in PhoneTexts, p \in PhoneTexts :
    /\ find(data, n) # 0
    /\ Method("Record.edit_phone", <<n, o, p>>, edit_phone(data[find(data, n)], o, p))

\* Birthday(value) on its own.
NewBirthday ==
  \E value \in BirthdayTexts :
    Step("Birthday", <<value>>, Shown(data, Birthday(value).msg, TRUE))

(***************************************************************************)
(* Spec: the handlers and the Record methods on one directory.             *)
(***************************************************************************)
Next ==
  \/ AddContact(AddArgs)
  \/ ChangeContact(ChangeArgs)
  \/ ShowPhone(NameArgs)
  \/ ShowAll
  \/ AddBirthday(BookBirthdayArgs)
  \/ ShowBirthday(NameArgs)
  \/ RecordAddPhone
  \/ RecordRemovePhone
  \/ RecordEditPhone
  \/ Prompt

Spec == Init /\ [][Next]_vars

(***************************************************************************)
(* SpecUpcoming: birthdays set through the handlers, and the birthdays     *)
(* handler on every day of Years.                                          *)
(***************************************************************************)
NextUpcoming ==
  \/ AddContact({<<n, P1>> : n \in Names})
  \/ AddBirthday({<<n, b>> : n \in Names, b \in UpcomingBirthdayTexts})
  \/ Birthdays(Todays)
  \/ Prompt

SpecUpcoming == Init /\ [][NextUpcoming]_vars

(***************************************************************************)
(* SpecBirthday: Birthday constructed from BirthdayTexts, alone and by the *)
(* add-birthday handler.                                                   *)
(***************************************************************************)
NextBirthday ==
  \/ NewBirthday
  \/ AddContact({<<NameA, P1>>})
  \/ AddBirthday({<<NameA, b>> : b \in BirthdayTexts})
  \/ Prompt

SpecBirthday == Init /\ [][NextBirthday]_vars

(***************************************************************************)
(* SpecLoop: the loop of main reading lines.                               *)
(***************************************************************************)
\* " ".join(tokens)
Line(tokens) == Join(<<" ">>, tokens)

Lines ==
  {<<>>, <<" ">>, <<" ", "\t", " ">>}
    \cup {<<" ">> \o Line(<<CmdHello>>) \o <<" ", " ">>}
    \cup {Line(t) : t \in
           {<<CmdHello>>, <<CmdClose>>, <<CmdExit>>, <<<<"E", "X", "I", "T">>>>,
            <<<<"q", "u", "i", "t">>>>, <<CmdAll>>, <<CmdBirthdays>>,
            <<CmdAdd>>, <<CmdAdd, NameA>>, <<CmdAdd, NameA, P1>>, <<CmdAdd, NameA, P2>>,
            <<CmdAdd, NameB, PShort>>, <<<<"A", "D", "D">>, NameB, P1, Extra>>,
            <<CmdChange, NameA, P1>>, <<CmdChange, NameA, P1, P2>>,
            <<CmdChange, NameB, P2, PAlpha>>, <<CmdChange, NameB, P1, PShort>>,
            <<CmdPhone>>, <<CmdPhone, NameA>>, <<CmdPhone, NameB>>,
            <<CmdAddBirthday, NameA>>, <<CmdAddBirthday, NameA, B_29_02_2024>>,
            <<CmdAddBirthday, NameA, B_30_02_2024>>, <<CmdAddBirthday, NameB, B_1_1_2024>>,
            <<CmdShowBirthday>>, <<CmdShowBirthday, NameA>>, <<CmdShowBirthday, NameB>>}}

\* The dates the loop runs on: the first of March of each year of Years.
LoopTodays == {[year |-> y, month |-> 3, day |-> 1] : y \in Years}

\* The loop body ran on command and left body.
Ran(command, tdy, body) ==
  /\ TotalPhones(body.shown.book) <= MaxPhones
  /\ running' = IF body.break THEN "stopped" ELSE "running"
  /\ data' = body.shown.book
  /\ out' = body.shown.out
  /\ validated' = body.shown.validated
  /\ IF command = CmdBirthdays
     THEN /\ today' = tdy
          /\ upcoming' = get_upcoming_birthdays(data, tdy)
     ELSE UNCHANGED <<today, upcoming>>

\* parse_input returned or raised parsed: its raise leaves main.
Parsed(parsed, tdy) ==
  IF ~parsed.ok
  THEN /\ running' = "failed"
       /\ out' = parsed.msg
       /\ UNCHANGED <<data, validated, today, upcoming>>
  ELSE Ran(parsed.val.cmd, tdy, main_body(parsed.val.cmd, parsed.val.args, data, tdy))

\* input() returned user_input on a day tdy.
ReadLine ==
  /\ running = "running"
  /\ call = Waiting
  /\ \E user_input \in Lines, tdy \in LoopTodays :
       /\ call' = [op |-> "line", args |-> <<user_input>>]
       /\ prev' = data
       /\ Parsed(parse_input(user_input), tdy)

NextLoop ==
  \/ ReadLine
  \/ Prompt

SpecLoop == Init /\ [][NextLoop]_vars

(***************************************************************************)
(* What the claims speak of.                                               *)
(***************************************************************************)
\* A string of exactly 10 characters, each an ASCII digit.
IsTenAsciiDigits(p) == Len(p) = 10 /\ \A i \in 1..Len(p) : p[i] \in AsciiDigits

\* A string of exactly 10 characters, each a digit to str.isdigit.
IsTenDigits(p) == Len(p) = 10 /\ \A i \in 1..Len(p) : p[i] \in UnicodeDigits

\* The record of name in book.
RecordOf(book, name) == book[find(book, name)]

\* The birthday of rec falls on the day k days after tdy.
FallsOn(rec, tdy, k) ==
  /\ PlusDays(tdy, k).month = strptime(rec.birthday[1]).val.month
  /\ PlusDays(tdy, k).day = strptime(rec.birthday[1]).val.day

\* The next occurrence of the birthday of rec is at most 7 days after tdy.
WithinWeek(rec, tdy) == \E k \in 0..7 : FallsOn(rec, tdy, k)

\* That next occurrence.
NextOccurrence(rec, tdy) ==
  PlusDays(tdy, CHOOSE k \in 0..7 :
                  FallsOn(rec, tdy, k) /\ \A j \in 0..(k - 1) : ~FallsOn(rec, tdy, j))

Listed(name) == \E j \in 1..Len(upcoming.val) : upcoming.val[j].name = name

\* C1: whenever get_upcoming_birthdays returns a result for today, a record is
\* in it if and only if it has a birthday and the next occurrence of the
\* birthday's month and day on or after today is 0 to 7 days after today.
C1_UpcomingIsTheNextWeek ==
  (call.op = "birthdays" /\ upcoming.ok) =>
    \A i \in 1..Len(data) :
      Listed(data[i].name) <=> (data[i].birthday # <<>> /\ WithinWeek(data[i], today))

\* A result that lists a birthday exactly 7 days away and leaves out another
\* record whose birthday is further away.
C1_Witness ==
  /\ call.op = "birthdays"
  /\ upcoming.ok
  /\ \E i \in 1..Len(data), j \in 1..Len(data) :
       /\ data[i].birthday # <<>> /\ data[j].birthday # <<>>
       /\ Listed(data[i].name)
       /\ FallsOn(data[i], today, 7) /\ \A k \in 0..6 : ~FallsOn(data[i], today, k)
       /\ ~Listed(data[j].name)
       /\ FallsOn(data[j], today, 8)

\* C2: every listed entry reports the next occurrence moved by 2 days from a
\* Saturday and by 1 day from a Sunday and unmoved otherwise; the reported
\* date is no Saturday or Sunday, is not before the next occurrence, and is 0
\* to 9 days after today.
C2_CongratulationDate ==
  (call.op = "birthdays" /\ upcoming.ok) =>
    \A j \in 1..Len(upcoming.val) :
      LET occurrence == NextOccurrence(RecordOf(data, upcoming.val[j].name), today)
          reported == strptime(upcoming.val[j].birthday)
      IN  /\ reported.ok
          /\ reported.val =
               IF weekday(occurrence) = 5 THEN PlusDays(occurrence, 2)
               ELSE IF weekday(occurrence) = 6 THEN PlusDays(occurrence, 1)
               ELSE occurrence
          /\ weekday(reported.val) \notin {5, 6}
          /\ ~DateLess(reported.val, occurrence)
          /\ toordinal(reported.val) - toordinal(today) \in 0..9

\* On Saturday 8 June 2024 the birthday of Saturday 15 June 2024, 7 days
\* away, is reported as Monday 17 June 2024, 9 days away.
C2_Witness ==
  /\ call.op = "birthdays"
  /\ upcoming.ok
  /\ today = [year |-> 2024, month |-> 6, day |-> 8]
  /\ \E j \in 1..Len(upcoming.val) :
       /\ RecordOf(data, upcoming.val[j].name).birthday = <<B_15_06_2024>>
       /\ upcoming.val[j].birthday = <<"1", "7", ".", "0", "6", ".", "2", "0", "2", "4">>

\* C3: for every directory reachable through add and add-birthday and every
\* today, get_upcoming_birthdays completes with a list of entries and the
\* birthdays handler returns no error description.
C3_BirthdaysNeverFails ==
  call.op = "birthdays" =>
    /\ upcoming.ok
    /\ out = NoUpcomingText \/ Head(out) = "Upcoming birthdays:"

CountedHandlers == {"add", "change", "phone", "add-birthday", "show-birthday"}

\* The number of arguments the claim gives each handler.
Required(op) ==
  CASE op = "add" -> 2 [] op = "change" -> 3 [] op = "phone" -> 1
    [] op = "add-birthday" -> 2 [] op = "show-birthday" -> 1

Rejected == out = BadFormatText /\ ~validated /\ data = prev

\* C4 as stated: a call of add, change, phone, add-birthday or show-birthday
\* with fewer or more arguments than the handler requires returns the
\* invalid-command-format result, validates nothing and leaves the directory
\* unchanged.
C4_WrongCountRejected ==
  (call.op \in CountedHandlers /\ Len(call.args) # Required(call.op)) => Rejected

\* C4 as amended: a call with fewer arguments than the handler requires returns
\* the invalid-command-format result, validates nothing and leaves the
\* directory unchanged; a call with more arguments is not rejected for its
\* count.
C4_TooFewRejected ==
  call.op \in CountedHandlers =>
    /\ Len(call.args) < Required(call.op) => Rejected
    /\ Len(call.args) > Required(call.op) => out # BadFormatText

\* change with two arguments on a directory that holds the contact.
C4_Witness ==
  /\ call.op = "change"
  /\ Len(call.args) = 2
  /\ find(data, call.args[1]) # 0
  /\ RecordOf(data, call.args[1]).phones = <<call.args[2]>>
  /\ Rejected

\* C5: add(name, phone) with a valid phone returns "Contact added." and creates
\* a record holding exactly that phone when name has no record, and returns
\* "Contact updated." and appends the phone to the end of the record's phones,
\* all else unchanged, when it has one; the phone handler lists the phones in
\* their order.
C5_AddAppends ==
  /\ (call.op = "add" /\ Len(call.args) = 2 /\ IsTenAsciiDigits(call.args[2])) =>
       IF find(prev, call.args[1]) = 0
       THEN /\ out = AddedText
            /\ data = Append(prev, [name |-> call.args[1],
                                    phones |-> <<call.args[2]>>,
                                    birthday |-> <<>>])
       ELSE /\ out = UpdatedText
            /\ data = [prev EXCEPT ![find(prev, call.args[1])].phones =
                                      Append(@, call.args[2])]
  /\ (/\ call.op = "phone" /\ Len(call.args) = 1 /\ find(data, call.args[1]) # 0
      /\ RecordOf(data, call.args[1]).phones # <<>>) =>
       out = call.args[1] \o <<": ">>
               \o Join(<<", ">>, RecordOf(data, call.args[1]).phones)

\* A second add for a name put its phone after the first.
C5_Witness ==
  /\ call.op = "add"
  /\ call.args = <<NameA, P2>>
  /\ out = UpdatedText
  /\ RecordOf(prev, NameA).phones = <<P1>>
  /\ RecordOf(data, NameA).phones = <<P1, P2>>

\* What add leaves when it adds no phone: a new record without phones and
\* birthday when name had none, and nothing new otherwise.
NoPhoneAdded ==
  data = IF find(prev, call.args[1]) = 0 THEN Append(prev, Record(call.args[1])) ELSE prev

C7_FailedEditChangesNothing ==
  /\ (call.op = "change" /\ Len(call.args) = 3) =>
       IF find(prev, call.args[1]) = 0 THEN out = NotFoundText /\ data = prev
       ELSE IF find_phone(RecordOf(prev, call.args[1]), call.args[2]) = 0
            THEN out = PhoneNotFound /\ data = prev
            ELSE IF ~IsTenDigits(call.args[3]) THEN out = PhoneError /\ data = prev
            ELSE out = UpdatedText
  /\ call.op = "Record.edit_phone" =>
       IF find_phone(RecordOf(prev, call.args[1]), call.args[2]) = 0
       THEN out = PhoneNotFound /\ data = prev
       ELSE IF ~IsTenDigits(call.args[3]) THEN out = PhoneError /\ data = prev
       ELSE out = None

\* change found the old phone, refused the new one and left both phones of the
\* record as they were.
C7_Witness ==
  /\ call.op = "change"
  /\ call.args = <<NameA, P2, PShort>>
  /\ out = PhoneError
  /\ RecordOf(prev, NameA).phones = <<P1, P2>>
  /\ data = prev

\* A text DD.MM.YYYY of two, two and four ASCII digits that is a date of the
\* calendar.
FixedWidthDate(v) ==
  /\ Len(v) = 10
  /\ v[3] = "." /\ v[6] = "."
  /\ \A i \in {1, 2, 4, 5, 7, 8, 9, 10} : v[i] \in AsciiDigits
  /\ LET d == 10 * DigitVal(v[1]) + DigitVal(v[2])
         m == 10 * DigitVal(v[4]) + DigitVal(v[5])
         y == 1000 * DigitVal(v[7]) + 100 * DigitVal(v[8]) + 10 * DigitVal(v[9])
                + DigitVal(v[10])
     IN  y >= 1 /\ m \in 1..12 /\ d >= 1 /\ d <= DaysInMonth(y, m)

\* C8: Birthday construction succeeds exactly for the texts in the fixed-width
\* format DD.MM.YYYY that are a date of the calendar and fails with "Invalid
\* date format. Use DD.MM.YYYY" for every other text; add-birthday with
\* "1.1.2024" leaves the birthday unset.
C8_BirthdayIsFixedWidth ==
  /\ call.op = "Birthday" =>
       out = IF FixedWidthDate(call.args[1]) THEN None ELSE BirthdayError
  /\ (call.op = "add-birthday" /\ Len(call.args) = 2 /\ find(prev, call.args[1]) # 0) =>
       IF FixedWidthDate(call.args[2])
       THEN out = BirthdayAddedText
              /\ RecordOf(data, call.args[1]).birthday = <<call.args[2]>>
       ELSE out = BirthdayError /\ data = prev

\* C9: every phone stored in every record of the directory is a string of
\* exactly 10 characters, each an ASCII digit 0-9.
C9_StoredPhonesAreTenAsciiDigits ==
  \A i \in 1..Len(data) :
    \A j \in 1..Len(data[i].phones) : IsTenAsciiDigits(data[i].phones[j])

\* C10: the command loop ends only when the command word is "close" or "exit":
\* every other line has its result printed and the loop reads on, and no line
\* makes the process fail.
C10_LoopEndsOnlyOnCloseOrExit ==
  /\ running # "failed"
  /\ running = "stopped" => parse_input(call.args[1]).val.cmd \in {CmdClose, CmdExit}

====
